---- MODULE Spec2Model ----
(***************************************************************************)
(* A model of the L-system engine of goedel-gang/lsystems:                 *)
(*   matrix.py        Matrix (__mul__, identity, __pow__)                  *)
(*   drawing.py       ProcessingTurtle                                     *)
(*   fractal_base.py  LSystemFractal (generate_transition_matrix,          *)
(*                    project_steps, generate, draw)                       *)
(*   fractals.py      standard_rules, fibo_rules, draw, nodraw             *)
(*   hilbert.py       gen_l                                                *)
(* The code is Python 2 (xrange, izip, print statements): map() pads the   *)
(* shorter iterable with None, izip() stops at the shortest one.           *)
(***************************************************************************)
EXTENDS Integers, Sequences, FiniteSets, TLC

VARIABLES
    mSelf,      \* Matrix: the receiver of the last Matrix operation (self.array)
    mOther,     \* Matrix: the argument of the last __mul__ (other.array)
    mN,         \* the exponent of the last __pow__ / the size of the last identity
    mOp,        \* the last Matrix operation: "none", "mul", "pow", "identity"
    mRes,       \* its outcome: a returned Matrix or a raised exception
    turtle,     \* ProcessingTurtle: x, y, heading, _pendown, input_scale,
                \* times_moved, state_stack, and the graphics.line calls made
    tOp,        \* the last ProcessingTurtle method called
    tErr,       \* the exception it raised, "none" when it returned
    tCalls,     \* the number of ProcessingTurtle methods called so far
    saved,      \* history: for each save_state not yet restored, the turtle
                \* as it was when save_state was called
    expect,     \* history: the entry of saved matching the last restore_state
    fractal,    \* LSystemFractal: the namedtuple fields axiom, rules,
                \* draw_rules, size_func
    built,      \* the exception LSystemFractal(...) raised, "none" when it
                \* returned the fractal
    symbols,    \* self.symbols
    transition_matrix,  \* self.transition_matrix.array
    initial_vector,     \* self.initial_vector.array
    symbol_steps,       \* self.symbol_steps
    ind_is_odd, \* the lists ind_is_odd that the calls of fibo_rules have
                \* made, in the order of the calls (one flag each)
    fOp,        \* the method of the fractal that was called: "none",
                \* "project_steps", "generate", "draw"; "gen_l" for
                \* hilbert.py's function
    fDepth,     \* its depth / iterations argument
    projected,  \* the outcome of project_steps
    gen,        \* the generator object returned by generate(depth)
    genOut,     \* history: the symbols it has yielded so far
    drw,        \* the generator object returned by draw(turtle, depth, w)
    gen2,       \* the generator object of a second generate(depth)
    genOut2,    \* history: the symbols the second one has yielded so far
    drw2,       \* the generator object of a second draw(turtle, depth, w)
    genl,       \* hilbert.py: the generator object returned by gen_l
    genlOut     \* history: the symbols it has yielded so far

matVars == <<mSelf, mOther, mN, mOp, mRes>>

turtleVars == <<turtle, tOp, tErr, tCalls, saved, expect>>

\* the fields of a constructed LSystemFractal
builtVars == <<fractal, built, symbols, transition_matrix, initial_vector,
               symbol_steps>>

fractalVars == <<fractal, built, symbols, transition_matrix, initial_vector,
                 symbol_steps, ind_is_odd, fOp, fDepth, projected, gen,
                 genOut, drw, gen2, genOut2, drw2, genl, genlOut>>

vars == <<mSelf, mOther, mN, mOp, mRes, turtle, tOp, tErr, tCalls, saved, expect,
          fractal, built, symbols, transition_matrix, initial_vector,
          symbol_steps, ind_is_odd, fOp, fDepth, projected, gen, genOut, drw,
          gen2, genOut2, drw2, genl, genlOut>>

----------------------------------------------------------------------------
(* Bounds of the model *)

\* largest exponent handed to Matrix.__pow__
MaxExp == 5
\* most negative exponent handed to Matrix.__pow__ is -MaxNegExp
MaxNegExp == 2
\* stands for the interpreter's recursion limit (1000 in CPython); any
\* finite value gives the same outcome for a recursion that never ends
RecursionLimit == 8

\* most ProcessingTurtle methods called on one turtle
MaxCalls == 5
\* largest number of iterations handed to project_steps
MaxIterations == 6
\* largest depth handed to generate and to draw
MaxDepth == 3
\* largest depth handed to two generate or two draw calls consumed in turns
MaxInterleaveDepth == 2

\* the row and column counts of the matrices drawn as inputs
Dims == {0, 1, 2}
\* the entries of the matrices drawn as inputs
Entries == {-1, 0, 1, 2}

----------------------------------------------------------------------------
(* Outcomes of a call: a returned value or a raised exception *)

Ok(a) == [ok |-> TRUE, array |-> a, err |-> "none"]

Err(e) == [ok |-> FALSE, array |-> <<>>, err |-> e]

NoCall == [ok |-> TRUE, array |-> <<>>, err |-> "none"]

----------------------------------------------------------------------------
(* matrix.py *)

RECURSIVE SumSeq(_)
\* sum(...) of a list of numbers
SumSeq(s) == IF s = <<>> THEN 0 ELSE Head(s) + SumSeq(Tail(s))

MinOf(S) == CHOOSE x \in S : \A y \in S : x <= y

\* izip(*other.array): the number of tuples it yields. izip() of no
\* iterables yields nothing; otherwise it stops with the shortest row.
NumCols(other) ==
    IF other = <<>> THEN 0
    ELSE MinOf({Len(other[i]) : i \in 1..Len(other)})

\* the j-th tuple of izip(*other.array)
Col(other, j) == [i \in 1..Len(other) |-> other[i][j]]

\* map(mul, row, col) of Python 2 pads the shorter argument with None, and
\* mul(number, None) raises TypeError
MapMulRaises(row, col) == Len(row) # Len(col)

\* sum(map(mul, row, col)) for arguments of one length
Dot(row, col) == SumSeq([k \in 1..Len(row) |-> row[k] * col[k]])

\* Matrix.__mul__
Mul(self, other) ==
    IF \E i \in 1..Len(self) : \E j \in 1..NumCols(other) :
            MapMulRaises(self[i], Col(other, j))
    THEN Err("TypeError")
    ELSE Ok([i \in 1..Len(self) |->
                [j \in 1..NumCols(other) |-> Dot(self[i], Col(other, j))]])

\* Matrix.identity: [[int(x == y) for x in xrange(n)] for y in xrange(n)]
identity(n) ==
    [y \in 1..n |-> [x \in 1..n |-> IF x = y THEN 1 ELSE 0]]

RECURSIVE PowNoOddFactor(_, _, _)
\* Mutant of PowFrames: the odd factor is dropped (M ^ (2k+1) computed as
\* M ^ 2k)
PowNoOddFactor(self, n, frames) ==
    IF frames > RecursionLimit THEN Err("RuntimeError")
    ELSE IF n = 0 THEN Ok(identity(Len(self)))
    ELSE IF n = 1 THEN Ok(self)
    ELSE LET square == PowNoOddFactor(self, n \div 2, frames + 1) IN
         IF ~square.ok THEN square ELSE Mul(square.array, square.array)

RECURSIVE PowFrames(_, _, _)
\* Matrix.__pow__ running in the frames-th nested call of itself. n // 2
\* floors and n & 1 is n mod 2, also for a negative n. A call nested deeper
\* than the interpreter allows raises RuntimeError (maximum recursion depth
\* exceeded), which no frame catches.
PowFrames(self, n, frames) ==
    IF frames > RecursionLimit THEN Err("RuntimeError")
    ELSE IF n = 0 THEN Ok(identity(Len(self)))
    ELSE IF n = 1 THEN Ok(self)
    ELSE LET square == PowFrames(self, n \div 2, frames + 1) IN
         IF ~square.ok THEN square
         ELSE LET odd == PowFrames(self, n % 2, frames + 1) IN
              IF ~odd.ok THEN odd
              ELSE LET first == Mul(odd.array, square.array) IN
                   IF ~first.ok THEN first
                   ELSE Mul(first.array, square.array)

\* Matrix.__pow__ called from outside
Pow(self, n) == PowFrames(self, n, 1)

\* p * q for the outcomes p and q of two Matrix expressions, an exception
\* passing through
MulOutcome(p, q) ==
    IF ~p.ok THEN p ELSE IF ~q.ok THEN q ELSE Mul(p.array, q.array)

\* the matrices drawn as inputs: r rows of c entries
MatricesOf(r, c) == [1..r -> [1..c -> Entries]]

Matrices == UNION {MatricesOf(r, c) : r \in Dims, c \in Dims}

IsSquare(m) == \A i \in 1..Len(m) : Len(m[i]) = Len(m)

----------------------------------------------------------------------------
(* drawing.py: ProcessingTurtle *)
(* Headings are held in radians by the code. The model holds them in      *)
(* quarter turns (pi / 2 radians), so that radians(90) is 1 and 2 * pi    *)
(* is 4, and draws every angle from the multiples of 90 degrees, for      *)
(* which cos and sin are -1, 0 or 1. Floating-point rounding is not       *)
(* modelled.                                                              *)

\* degrees in a quarter turn
QuarterTurn == 90
\* 2 * pi in quarter turns
TwoPi == 4

\* math.radians
radians(angle) == angle \div QuarterTurn

\* math.cos
cos(h) == CASE h % TwoPi = 0 -> 1
            [] h % TwoPi = 1 -> 0
            [] h % TwoPi = 2 -> -1
            [] OTHER -> 0

\* math.sin
sin(h) == CASE h % TwoPi = 0 -> 0
            [] h % TwoPi = 1 -> 1
            [] h % TwoPi = 2 -> 0
            [] OTHER -> -1

RECURSIVE GCD(_, _)
GCD(a, b) == IF b = 0 THEN a ELSE GCD(b, a % b)

Abs(n) == IF n < 0 THEN 0 - n ELSE n

\* Coordinates are floats in the code. The model holds them as fractions
\* <<numerator, denominator>> in lowest terms: n / d for d # 0.
Frac(n, d) ==
    LET g == GCD(Abs(n), Abs(d)) IN
    IF d < 0 THEN <<(0 - n) \div g, (0 - d) \div g>> ELSE <<n \div g, d \div g>>

FracAdd(p, q) == Frac(p[1] * q[2] + q[1] * p[2], p[2] * q[2])

\* a method's outcome: the turtle it leaves and the exception it raised
Returned(t) == [t |-> t, err |-> "none"]

Raised(t, e) == [t |-> t, err |-> e]

\* ProcessingTurtle.__init__ with its default arguments
NewTurtle ==
    [x |-> Frac(0, 1), y |-> Frac(0, 1), heading |-> 0, pendown |-> TRUE,
     input_scale |-> 1, output_scale |-> 1, times_moved |-> 0,
     state_stack |-> <<>>, lines |-> 0]

\* ProcessingTurtle.output_rescale
output_rescale(t, scale) == [t EXCEPT !.output_scale = @ * scale]

\* ProcessingTurtle.input_rescale
input_rescale(t, scale) == [t EXCEPT !.input_scale = @ * scale]

\* ProcessingTurtle.jump
jump(t, nx, ny) == [t EXCEPT !.x = nx, !.y = ny]

\* ProcessingTurtle.setpos: a line on the canvas when the pen is down, then
\* jump
setpos(t, nx, ny) ==
    jump([t EXCEPT !.lines = IF t.pendown THEN @ + 1 ELSE @], nx, ny)

\* ProcessingTurtle.setheading_degrees (the heading is not reduced mod 2 pi)
setheading_degrees(t, heading) == [t EXCEPT !.heading = radians(heading)]

\* ProcessingTurtle.forward: 1.0 * steps / self.input_scale raises
\* ZeroDivisionError for an input scale of 0, before anything is changed
forward(t, steps) ==
    IF t.input_scale = 0 THEN Raised(t, "ZeroDivisionError")
    ELSE LET moved ==
               setpos(t,
                   FracAdd(t.x, Frac(steps * cos(t.heading), t.input_scale)),
                   FracAdd(t.y, Frac(steps * sin(t.heading), t.input_scale)))
         IN  Returned([moved EXCEPT !.times_moved = @ + 1])

\* ProcessingTurtle.turn_degrees
turn_degrees(t, angle) ==
    [t EXCEPT !.heading = (@ + radians(angle)) % TwoPi]

\* ProcessingTurtle.penup
penup(t) == [t EXCEPT !.pendown = FALSE]

\* ProcessingTurtle.pendown
pendown(t) == [t EXCEPT !.pendown = TRUE]

\* Mutant of save_state: the pen state is not saved (saved as down)
SaveStateNoPen(t) ==
    [t EXCEPT !.state_stack = Append(@, <<t.x, t.y, t.heading, TRUE>>)]

\* ProcessingTurtle.save_state
save_state(t) ==
    [t EXCEPT !.state_stack = Append(@, <<t.x, t.y, t.heading, t.pendown>>)]

\* Mutant of restore_state: an empty stack is taken for the initial state
RestoreStateOrHome(t) ==
    IF t.state_stack = <<>>
    THEN Returned([t EXCEPT !.x = Frac(0, 1), !.y = Frac(0, 1),
                            !.heading = 0, !.pendown = TRUE])
    ELSE LET top == t.state_stack[Len(t.state_stack)] IN
         Returned([t EXCEPT !.x = top[1], !.y = top[2], !.heading = top[3],
                            !.pendown = top[4],
                            !.state_stack = SubSeq(@, 1, Len(@) - 1)])

\* ProcessingTurtle.restore_state: list.pop() raises IndexError (pop from
\* empty list) before anything is assigned
restore_state(t) ==
    IF t.state_stack = <<>>
    THEN Raised(t, "IndexError")
    ELSE LET top == t.state_stack[Len(t.state_stack)] IN
         Returned([t EXCEPT !.x = top[1], !.y = top[2], !.heading = top[3],
                            !.pendown = top[4],
                            !.state_stack = SubSeq(@, 1, Len(@) - 1)])

\* the (x, y, heading, pen-down) values of a turtle
Pose(t) == <<t.x, t.y, t.heading, t.pendown>>

----------------------------------------------------------------------------
(* fractals.py: the grammars and their drawing rules *)

\* draw(): 1 whatever its arguments
draw == 1
\* nodraw(): 0 whatever its arguments
nodraw == 0

\* Grammars. F -> F+F-F is the example of the specification; the Fibonacci
\* word is fractals.py's; the others are small grammars with a bracketed
\* rule, with an axiom that takes no step, with no stepping symbol, with an
\* erasing rule, with no symbol at all, and with a symbol (Q, first met at
\* depth 2) that standard_rules has no drawing rule for.
SpecExample ==
    [name |-> "F+F-F", axiom |-> <<"F">>,
     rules |-> [s \in {"F"} |-> <<"F", "+", "F", "-", "F">>],
     additions |-> "none", size_func |-> "3 ** d"]

fibonacci_word ==
    [name |-> "Fibonacci Word Fractal", axiom |-> <<"0", "F">>,
     rules |-> [s \in {"F", "G"} |->
                  IF s = "F" THEN <<"F", "G">> ELSE <<"F">>],
     additions |-> "fibo_rules", size_func |-> "fibo_dim"]

Tree ==
    [name |-> "Tree", axiom |-> <<"F">>,
     rules |-> [s \in {"F"} |-> <<"F", "[", "+", "F", "]">>],
     additions |-> "none", size_func |-> "2 ** d"]

MiniHilbert ==
    [name |-> "Mini Hilbert", axiom |-> <<"X">>,
     rules |-> [s \in {"X", "Y"} |->
                  IF s = "X" THEN <<"+", "Y", "F">> ELSE <<"X", "F", "X">>],
     additions |-> "none", size_func |-> "2 ** d - 1"]

NoStep ==
    [name |-> "No Step", axiom |-> <<"X">>,
     rules |-> [s \in {"X"} |-> <<"X", "+", "X">>],
     additions |-> "none", size_func |-> "2 ** d"]

Erasing ==
    [name |-> "Erasing", axiom |-> <<"F", "G", "F">>,
     rules |-> [s \in {"F", "G"} |->
                  IF s = "F" THEN <<"G", "F">> ELSE <<>>],
     additions |-> "none", size_func |-> "2 ** d"]

Empty ==
    [name |-> "Empty", axiom |-> <<>>, rules |-> <<>>,
     additions |-> "none", size_func |-> "2 ** d"]

MissingRule ==
    [name |-> "Missing Rule", axiom |-> <<"F">>,
     rules |-> [s \in {"F", "X"} |->
                  IF s = "F" THEN <<"F", "X">> ELSE <<"Q">>],
     additions |-> "none", size_func |-> "2 ** d"]

Fractals ==
    {SpecExample, fibonacci_word, Tree, MiniHilbert, NoStep, Erasing, Empty,
     MissingRule}

RECURSIVE Power(_, _)
\* b ** d for d >= 0
Power(b, d) == IF d = 0 THEN 1 ELSE b * Power(b, d - 1)

\* fibo_dim
fibo_dim(n) ==
    LET base == Pow(<<<<0, 1>>, <<1, 2>>>>, n \div 3).array IN
    IF n % 3 = 0 THEN Mul(base, <<<<1>>, <<3>>>>).array[1][1]
    ELSE IF n % 3 = 2 THEN Mul(base, <<<<2>>, <<5>>>>).array[1][1]
    ELSE Mul(base, <<<<2>>, <<5>>>>).array[1][1] - 1

\* self.size_func(depth)
size_func(fr, d) ==
    CASE fr.size_func = "3 ** d" -> Power(3, d)
      [] fr.size_func = "2 ** d" -> Power(2, d)
      [] fr.size_func = "2 ** d - 1" -> Power(2, d) - 1
      [] OTHER -> fibo_dim(d)

\* the keys of the dictionary standard_rules returns (with fibo_rules'
\* additions, which only override F and G)
RuleKeys == {"F", "G", "f", "-", "+", "|", "[", "]", "X", "Y", "0"}

\* The nullary function rules[sym] of standard_rules(t, 90): the turtle
\* methods it calls, in order, the value it returns, and the flag of
\* fibo_rules, which it leaves alone
StandardRule(sym, odd) ==
    CASE sym \in {"F", "G"} ->
            [calls |-> <<<<"forward", 1>>>>, steps |-> draw, odd |-> odd]
      [] sym = "f" ->
            [calls |-> <<<<"fjump", 1>>>>, steps |-> nodraw, odd |-> odd]
      [] sym = "-" ->
            [calls |-> <<<<"turn_degrees", -90>>>>, steps |-> nodraw,
             odd |-> odd]
      [] sym = "+" ->
            [calls |-> <<<<"turn_degrees", 90>>>>, steps |-> nodraw,
             odd |-> odd]
      [] sym = "|" ->
            [calls |-> <<<<"turn_degrees", 180>>>>, steps |-> nodraw,
             odd |-> odd]
      [] sym = "[" ->
            [calls |-> <<<<"save_state", 0>>>>, steps |-> nodraw,
             odd |-> odd]
      [] sym = "]" ->
            [calls |-> <<<<"restore_state", 0>>>>, steps |-> nodraw,
             odd |-> odd]
      [] sym = "0" ->
            [calls |-> <<<<"jump", 0>>, <<"setheading_degrees", 0>>>>,
             steps |-> nodraw, odd |-> odd]
      [] OTHER ->
            [calls |-> <<>>, steps |-> nodraw, odd |-> odd]

\* Mutant of RuleBody: G leaves the flag of fibo_rules alone
RuleBodyGKeepsFlag(fr, sym, odd) ==
    IF fr.additions = "fibo_rules" /\ sym = "F" THEN
        [calls |-> <<<<"forward", 1>>,
                     <<"turn_degrees", IF ~odd THEN 90 ELSE -90>>>>,
         steps |-> draw, odd |-> ~odd]
    ELSE StandardRule(sym, odd)

\* The nullary function draw_rules[sym] of standard_rules(t, 90), with the
\* additions of fibo_rules(t) where the fractal has them: the turtle methods
\* it calls, in order, the value it returns, and the closure's flag
\* ind_is_odd[0] as it leaves it (F and G of fibo_rules negate it first; F
\* turns +90 when it is then True, -90 when it is then False).
RuleBody(fr, sym, odd) ==
    IF fr.additions = "fibo_rules" /\ sym = "F" THEN
        [calls |-> <<<<"forward", 1>>,
                     <<"turn_degrees", IF ~odd THEN 90 ELSE -90>>>>,
         steps |-> draw, odd |-> ~odd]
    ELSE IF fr.additions = "fibo_rules" /\ sym = "G" THEN
        [calls |-> <<<<"forward", 1>>>>, steps |-> draw, odd |-> ~odd]
    ELSE StandardRule(sym, odd)

----------------------------------------------------------------------------
(* fractal_base.py: LSystemFractal *)

\* Mutant of RulesGet: a symbol without a rule is replaced by nothing
RulesGetNoDefault(fr, sym) ==
    IF sym \in DOMAIN fr.rules THEN fr.rules[sym] ELSE <<>>

\* self.rules.get(sym, sym): iterating the one-character string sym gives sym
RulesGet(fr, sym) ==
    IF sym \in DOMAIN fr.rules THEN fr.rules[sym] ELSE <<sym>>

Range(f) == {f[i] : i \in DOMAIN f}

\* Mutant of SymbolSet: the right-hand sides of the rules are left out
SymbolSetNoBodies(fr) == Range(fr.axiom) \cup DOMAIN fr.rules

\* set(chain(self.axiom, *starmap(chain, self.rules.items())))
SymbolSet(fr) ==
    Range(fr.axiom) \cup DOMAIN fr.rules
        \cup UNION {Range(fr.rules[k]) : k \in DOMAIN fr.rules}

\* list(set(...)): the set's elements, once each, in the order the set
\* happens to iterate in
Orders(S) ==
    {p \in [1..Cardinality(S) -> S] :
        \A i, j \in 1..Cardinality(S) : p[i] = p[j] => i = j}

\* Counter(seq)[sym]
Count(seq, sym) == Cardinality({i \in 1..Len(seq) : seq[i] = sym})

\* Mutant of TransitionMatrix: rows and columns are swapped
TransitionMatrixTransposed(fr, syms) ==
    [from \in 1..Len(syms) |->
        [to \in 1..Len(syms) |-> Count(RulesGet(fr, syms[from]), syms[to])]]

\* self.transition_matrix: rule_counter[symbol_to][symbol_from], symbol_to
\* running inside symbol_from
TransitionMatrix(fr, syms) ==
    [from \in 1..Len(syms) |->
        [to \in 1..Len(syms) |-> Count(RulesGet(fr, syms[to]), syms[from])]]

\* self.initial_vector
InitialVector(fr, syms) ==
    [i \in 1..Len(syms) |-> <<Count(fr.axiom, syms[i])>>]

\* self.symbol_steps: every rule is called once on a DummyTurtle, whose
\* methods do nothing, through a draw_rules(t, 1) of its own
SymbolSteps(fr, syms) ==
    [i \in 1..Len(syms) |-> RuleBody(fr, syms[i], FALSE).steps]

\* Mutant of SymbolStepsOutcome: a symbol without a drawing rule is taken
\* for one that does nothing
SymbolStepsPermissive(fr, syms) == Ok(SymbolSteps(fr, syms))

\* [draw_rules[symbol]() for symbol in self.symbols]: draw_rules[symbol]
\* raises KeyError for a symbol that is no key of the dictionary, and
\* self.symbol_steps is not assigned
SymbolStepsOutcome(fr, syms) ==
    IF \E i \in 1..Len(syms) : syms[i] \notin RuleKeys
    THEN Err("KeyError")
    ELSE Ok(SymbolSteps(fr, syms))

\* Mutant of fibo_rules: one flag for all the calls
FiboRulesSharedFlag(cells) ==
    [cells |-> IF cells = <<>> THEN <<FALSE>> ELSE cells, cell |-> 1]

\* fibo_rules(t): ind_is_odd = [False] makes a new list, which the closures
\* F and G it returns hold; cell is the place of that list in cells
fibo_rules(cells) ==
    [cells |-> Append(cells, FALSE), cell |-> Len(cells) + 1]

\* self.draw_rules(t, d): standard_rules(t, ...), with additions =
\* fibo_rules(t) for the Fibonacci word; cell 0 stands for no flag
DrawRules(fr, cells) ==
    IF fr.additions = "fibo_rules" THEN fibo_rules(cells)
    ELSE [cells |-> cells, cell |-> 0]

\* ind_is_odd[0] of the closures made by a call of draw_rules
Flag(cells, cell) == IF cell = 0 THEN FALSE ELSE cells[cell]

\* ind_is_odd[0] = value
SetFlag(cells, cell, value) ==
    IF cell = 0 THEN cells ELSE [cells EXCEPT ![cell] = value]

RECURSIVE ProbeRules(_, _, _, _)
\* the flags after draw_rules[symbol]() was called for syms[i], syms[i + 1],
\* ... on the DummyTurtle, up to the first symbol without a drawing rule
ProbeRules(fr, syms, i, made) ==
    IF i > Len(syms) \/ syms[i] \notin RuleKeys THEN made.cells
    ELSE ProbeRules(fr, syms, i + 1,
            [made EXCEPT !.cells =
                SetFlag(made.cells, made.cell,
                    RuleBody(fr, syms[i], Flag(made.cells, made.cell)).odd)])

\* Mutant of ProjectSteps: the transition matrix is not raised to the power
ProjectStepsNoPower(steps, T, v0, iterations) ==
    LET product == MulOutcome(MulOutcome(Ok(<<steps>>), Ok(T)), Ok(v0))
    IN  IF ~product.ok THEN [ok |-> FALSE, value |-> 0, err |-> product.err]
        ELSE IF product.array = <<>> \/ product.array[1] = <<>>
        THEN [ok |-> FALSE, value |-> 0, err |-> "IndexError"]
        ELSE [ok |-> TRUE, value |-> product.array[1][1], err |-> "none"]

\* LSystemFractal.project_steps:
\* (Matrix([self.symbol_steps]) * self.transition_matrix ** iterations
\*  * self.initial_vector).array[0][0]
ProjectSteps(steps, T, v0, iterations) ==
    LET power == Pow(T, iterations)
        product == MulOutcome(MulOutcome(Ok(<<steps>>), power), Ok(v0))
    IN  IF ~product.ok THEN [ok |-> FALSE, value |-> 0, err |-> product.err]
        ELSE IF product.array = <<>> \/ product.array[1] = <<>>
        THEN [ok |-> FALSE, value |-> 0, err |-> "IndexError"]
        ELSE [ok |-> TRUE, value |-> product.array[1][1], err |-> "none"]

\* Mutant of NewFrames: one generator more than the depth asks for
NewFramesExtraLevel(fr, depth) ==
    [k \in 1..(IF depth <= 0 THEN 2 ELSE depth + 2) |->
        [str |-> IF k = 1 THEN fr.axiom ELSE <<>>, idx |-> 0]]

\* the frames of generate(depth) and of the generators nested in it, the
\* innermost (depth <= 0, iterating the axiom) first: each holds the string
\* its for loop iterates and the number of symbols taken from it
NewFrames(fr, depth) ==
    [k \in 1..(IF depth <= 0 THEN 1 ELSE depth + 1) |->
        [str |-> IF k = 1 THEN fr.axiom ELSE <<>>, idx |-> 0]]

\* Mutant of PullLevel: the inner loop starts at the second symbol of each
\* replacement
RECURSIVE PullLevelSkipFirst(_, _, _)
PullLevelSkipFirst(fr, frames, k) ==
    IF frames[k].idx < Len(frames[k].str)
    THEN [frames |-> [frames EXCEPT ![k].idx = @ + 1], stop |-> FALSE,
          sym |-> frames[k].str[frames[k].idx + 1]]
    ELSE IF k = 1 THEN [frames |-> frames, stop |-> TRUE, sym |-> ""]
    ELSE LET inner == PullLevelSkipFirst(fr, frames, k - 1) IN
         IF inner.stop
         THEN [frames |-> inner.frames, stop |-> TRUE, sym |-> ""]
         ELSE PullLevelSkipFirst(fr,
                [inner.frames EXCEPT
                    ![k] = [str |-> RulesGet(fr, inner.sym), idx |-> 1]], k)

RECURSIVE PullLevel(_, _, _)
\* next() of the generator whose frame is frames[k]: the next symbol of the
\* replacement its inner loop is in; when that is used up, the replacement
\* of the next symbol pulled from generate(depth - 1); StopIteration when
\* that generator (or, for depth <= 0, the axiom) is used up
PullLevel(fr, frames, k) ==
    IF frames[k].idx < Len(frames[k].str)
    THEN [frames |-> [frames EXCEPT ![k].idx = @ + 1], stop |-> FALSE,
          sym |-> frames[k].str[frames[k].idx + 1]]
    ELSE IF k = 1 THEN [frames |-> frames, stop |-> TRUE, sym |-> ""]
    ELSE LET inner == PullLevel(fr, frames, k - 1) IN
         IF inner.stop
         THEN [frames |-> inner.frames, stop |-> TRUE, sym |-> ""]
         ELSE PullLevel(fr,
                [inner.frames EXCEPT
                    ![k] = [str |-> RulesGet(fr, inner.sym), idx |-> 0]], k)

\* no generator object
NoGenerator == [status |-> "none", depth |-> 0, frames |-> <<>>]

\* LSystemFractal.generate(depth): calling it only makes the generator
\* object; no frame runs before the first next()
generate(depth) == [status |-> "created", depth |-> depth, frames |-> <<>>]

\* next() of a generator object made by generate: the nested generators are
\* made as the first next() reaches them, and are gone at StopIteration
GeneratorNext(fr, g) ==
    IF g.status = "done" THEN [gen |-> g, stop |-> TRUE, sym |-> ""]
    ELSE LET frames == IF g.status = "created" THEN NewFrames(fr, g.depth)
                       ELSE g.frames
             pulled == PullLevel(fr, frames, Len(frames))
         IN  IF pulled.stop
             THEN [gen |-> [g EXCEPT !.status = "done", !.frames = <<>>],
                   stop |-> TRUE, sym |-> ""]
             ELSE [gen |-> [g EXCEPT !.status = "suspended",
                                     !.frames = pulled.frames],
                   stop |-> FALSE, sym |-> pulled.sym]

\* one call of a drawing rule on the turtle handed to draw. fjump is no
\* method of ProcessingTurtle; "0" jumps to initial_pos = (0, 0).
ApplyCall(t, call) ==
    CASE call[1] = "forward" -> forward(t, call[2])
      [] call[1] = "turn_degrees" -> Returned(turn_degrees(t, call[2]))
      [] call[1] = "save_state" -> Returned(save_state(t))
      [] call[1] = "restore_state" -> restore_state(t)
      [] call[1] = "jump" -> Returned(jump(t, Frac(0, 1), Frac(0, 1)))
      [] call[1] = "setheading_degrees" ->
            Returned(setheading_degrees(t, call[2]))
      [] OTHER -> Raised(t, "AttributeError")

RECURSIVE ApplyCalls(_, _)
\* the calls of one drawing rule, in order, up to the first that raises
ApplyCalls(t, calls) ==
    IF calls = <<>> THEN Returned(t)
    ELSE LET first == ApplyCall(t, Head(calls)) IN
         IF first.err # "none" THEN first ELSE ApplyCalls(first.t, Tail(calls))

RECURSIVE CallsMade(_, _)
\* the calls of one drawing rule that were made: all of them, or those up
\* to the first that raises
CallsMade(t, calls) ==
    IF calls = <<>> THEN <<>>
    ELSE LET first == ApplyCall(t, Head(calls)) IN
         IF first.err # "none" THEN <<Head(calls)>>
         ELSE <<Head(calls)>> \o CallsMade(first.t, Tail(calls))

\* The turtle handed to draw is a ProcessingTurtle that also offers sethue,
\* as DummyTurtle does; hue holds the argument of the last sethue call.
\* trace is a history of what the generator of draw did, in order:
\*   <<"next", symbol, 0>>        a symbol was taken from self.generate(depth)
\*   <<"sethue", "", times_moved>> turtle.sethue was called
\*   <<"rule", symbol, 0>>        draw_rules[symbol] was called
\*   <<"turtle", method, arg>>    the rule called a method of the turtle
\*   <<"yield", "", 0>>           draw yielded
\* no generator object
NoDraw ==
    [status |-> "none", depth |-> 0, w |-> 0, expected_steps |-> 0,
     times_moved |-> 0, pending |-> 0, gen |-> NoGenerator, cell |-> 0,
     hue |-> <<>>, t |-> NewTurtle, err |-> "none", where |-> "none",
     yields |-> 0, drawn |-> 0, trace |-> <<>>]

\* LSystemFractal.draw(turtle, depth, w): calling it only makes the
\* generator object
NewDraw(t, depth, w) == [NoDraw EXCEPT !.status = "created", !.depth = depth,
                                       !.w = w, !.t = t]

\* the generator of draw ends with an exception
DrawRaised(d, e, where) ==
    [d EXCEPT !.status = "raised", !.err = e, !.where = where,
              !.gen = NoGenerator]

\* Mutant of DrawLoop: draw yields after every symbol, whatever the number
\* of steps its rule returns
RECURSIVE DrawLoopYieldsPerSymbol(_, _, _)
DrawLoopYieldsPerSymbol(fr, d, cells) ==
    LET pulled == GeneratorNext(fr, d.gen) IN
    IF pulled.stop
    THEN [drw |-> [d EXCEPT !.status = "done", !.gen = NoGenerator],
          cells |-> cells]
    ELSE LET taken == [d EXCEPT !.gen = pulled.gen,
                                !.trace = Append(@, <<"next", pulled.sym, 0>>)]
         IN
    IF d.expected_steps = 0
    THEN [drw |-> DrawRaised(taken, "ZeroDivisionError", "sethue"),
          cells |-> cells]
    ELSE LET hued == [taken EXCEPT
                        !.hue = Frac(255 * d.times_moved, d.expected_steps),
                        !.trace = Append(@, <<"sethue", "", d.times_moved>>)]
         IN
    IF pulled.sym \notin RuleKeys
    THEN [drw |-> DrawRaised(hued, "KeyError", "draw_rules"), cells |-> cells]
    ELSE LET body == RuleBody(fr, pulled.sym, Flag(cells, d.cell))
             acted == ApplyCalls(d.t, body.calls)
             made == CallsMade(d.t, body.calls)
             after == [hued EXCEPT
                        !.t = acted.t, !.drawn = @ + 1,
                        !.trace = @ \o <<<<"rule", pulled.sym, 0>>>>
                            \o [i \in 1..Len(made) |->
                                    <<"turtle", made[i][1], made[i][2]>>]]
             flags == SetFlag(cells, d.cell, body.odd)
         IN  IF acted.err # "none"
             THEN [drw |-> DrawRaised(after, acted.err, "draw_rules"),
                   cells |-> flags]
             ELSE [drw |-> [after EXCEPT !.status = "suspended",
                                         !.times_moved = @ + 1,
                                         !.pending = 0,
                                         !.yields = @ + 1,
                                         !.trace = Append(@, <<"yield", "", 0>>)],
                   cells |-> flags]

RECURSIVE DrawLoop(_, _, _)
\* draw from `for symbol in self.generate(depth)` to its next yield: the
\* next symbol is pulled, turtle.sethue(255.0 * times_moved /
\* expected_steps) is called, draw_rules[symbol]() is called, and draw
\* yields at the first of the steps it returns. cells are the flags of the
\* closures of fibo_rules, d.cell the one held by draw's own draw_rules.
DrawLoop(fr, d, cells) ==
    LET pulled == GeneratorNext(fr, d.gen) IN
    IF pulled.stop
    THEN [drw |-> [d EXCEPT !.status = "done", !.gen = NoGenerator],
          cells |-> cells]
    ELSE LET taken == [d EXCEPT !.gen = pulled.gen,
                                !.trace = Append(@, <<"next", pulled.sym, 0>>)]
         IN
    IF d.expected_steps = 0
    THEN [drw |-> DrawRaised(taken, "ZeroDivisionError", "sethue"),
          cells |-> cells]
    ELSE LET hued == [taken EXCEPT
                        !.hue = Frac(255 * d.times_moved, d.expected_steps),
                        !.trace = Append(@, <<"sethue", "", d.times_moved>>)]
         IN
    IF pulled.sym \notin RuleKeys
    THEN [drw |-> DrawRaised(hued, "KeyError", "draw_rules"), cells |-> cells]
    ELSE LET body == RuleBody(fr, pulled.sym, Flag(cells, d.cell))
             acted == ApplyCalls(d.t, body.calls)
             made == CallsMade(d.t, body.calls)
             after == [hued EXCEPT
                        !.t = acted.t, !.drawn = @ + 1,
                        !.trace = @ \o <<<<"rule", pulled.sym, 0>>>>
                            \o [i \in 1..Len(made) |->
                                    <<"turtle", made[i][1], made[i][2]>>]]
             flags == SetFlag(cells, d.cell, body.odd)
         IN  IF acted.err # "none"
             THEN [drw |-> DrawRaised(after, acted.err, "draw_rules"),
                   cells |-> flags]
             ELSE IF body.steps > 0
             THEN [drw |-> [after EXCEPT !.status = "suspended",
                                         !.times_moved = @ + 1,
                                         !.pending = body.steps - 1,
                                         !.yields = @ + 1,
                                         !.trace = Append(@, <<"yield", "", 0>>)],
                   cells |-> flags]
             ELSE DrawLoop(fr, after, flags)

\* next() of the generator object made by draw. The first next() runs
\* project_steps, makes the drawing rules (fibo_rules makes a new flag,
\* False), rescales the turtle and enters the loop; a later one goes on
\* with the steps of the rule it yielded in, then with the loop.
DrawNextOutcome(fr, steps, T, v0, d, cells) ==
    IF d.status = "created"
    THEN LET expected == ProjectSteps(steps, T, v0, d.depth)
             rules == DrawRules(fr, cells)
         IN  IF ~expected.ok
             THEN [drw |-> DrawRaised(d, expected.err, "project_steps"),
                   cells |-> cells]
             ELSE DrawLoop(fr,
                    [d EXCEPT !.expected_steps = expected.value,
                              !.cell = rules.cell,
                              !.t = output_rescale(
                                      input_rescale(d.t, size_func(fr, d.depth)),
                                      d.w),
                              !.times_moved = 0,
                              !.gen = generate(d.depth)],
                    rules.cells)
    ELSE IF d.pending > 0
    THEN [drw |-> [d EXCEPT !.times_moved = @ + 1, !.pending = @ - 1,
                            !.yields = @ + 1,
                            !.trace = Append(@, <<"yield", "", 0>>)],
          cells |-> cells]
    ELSE DrawLoop(fr, d, cells)

----------------------------------------------------------------------------
(* hilbert.py: gen_l *)
(* The symbols HilA.F, HilA.L, HilA.R, HilA.A, HilA.B are the integers 0   *)
(* to 4 in the code and the strings "F", "L", "R", "A", "B" here.          *)

\* RULES
RULES ==
    [s \in {"A", "B"} |->
        IF s = "A"
        THEN <<"L", "B", "F", "R", "A", "F", "A", "R", "F", "B", "L">>
        ELSE <<"R", "A", "F", "L", "B", "F", "B", "L", "F", "A", "R">>]

\* no generator object
NoGenL == [status |-> "none", depth |-> 0, pattern |-> <<>>, rules |-> <<>>,
           stack |-> <<>>]

\* gen_l(depth, pattern, rules): calling it only makes the generator
\* object; no frame runs before the first next()
gen_l(depth, pattern, rules) ==
    [status |-> "created", depth |-> depth, pattern |-> pattern,
     rules |-> rules, stack |-> <<>>]

\* Mutant of PullL: the pattern is rewritten at depth 1 as well
RECURSIVE PullLRewritesAtDepthOne(_, _)
PullLRewritesAtDepthOne(rules, stack) ==
    IF stack = <<>> THEN [stack |-> stack, stop |-> TRUE, sym |-> ""]
    ELSE LET top == stack[Len(stack)] IN
         IF top.idx >= Len(top.pattern)
         THEN PullLRewritesAtDepthOne(rules, SubSeq(stack, 1, Len(stack) - 1))
         ELSE LET i == top.pattern[top.idx + 1]
                  moved == [stack EXCEPT ![Len(stack)].idx = @ + 1]
              IN  IF top.depth > 0 /\ i \in DOMAIN rules
                  THEN PullLRewritesAtDepthOne(rules,
                          Append(moved, [depth |-> top.depth - 1,
                                         pattern |-> rules[i], idx |-> 0]))
                  ELSE [stack |-> moved, stop |-> FALSE, sym |-> i]

RECURSIVE PullL(_, _)
\* next() of a generator of gen_l. stack holds the frames of the generators
\* nested in one another, the outermost first: each its depth, its pattern
\* and the number of symbols its for loop has taken from it. A frame with
\* depth > 1 makes gen_l(depth - 1, rules[i]) for a symbol i in rules and
\* yields what that yields; it yields any other symbol itself, as a frame
\* with depth <= 1 does with every symbol. A frame whose pattern is used up
\* ends, and the frame around it goes on.
PullL(rules, stack) ==
    IF stack = <<>> THEN [stack |-> stack, stop |-> TRUE, sym |-> ""]
    ELSE LET top == stack[Len(stack)] IN
         IF top.idx >= Len(top.pattern)
         THEN PullL(rules, SubSeq(stack, 1, Len(stack) - 1))
         ELSE LET i == top.pattern[top.idx + 1]
                  moved == [stack EXCEPT ![Len(stack)].idx = @ + 1]
              IN  IF top.depth > 1 /\ i \in DOMAIN rules
                  THEN PullL(rules,
                          Append(moved, [depth |-> top.depth - 1,
                                         pattern |-> rules[i], idx |-> 0]))
                  ELSE [stack |-> moved, stop |-> FALSE, sym |-> i]

\* next() of a generator object made by gen_l
GenLNextOutcome(g) ==
    IF g.status = "done" THEN [gen |-> g, stop |-> TRUE, sym |-> ""]
    ELSE LET stack == IF g.status = "created"
                      THEN <<[depth |-> g.depth, pattern |-> g.pattern,
                              idx |-> 0]>>
                      ELSE g.stack
             pulled == PullL(g.rules, stack)
         IN  IF pulled.stop
             THEN [gen |-> [g EXCEPT !.status = "done", !.stack = <<>>],
                   stop |-> TRUE, sym |-> ""]
             ELSE [gen |-> [g EXCEPT !.status = "suspended",
                                     !.stack = pulled.stack],
                   stop |-> FALSE, sym |-> pulled.sym]

----------------------------------------------------------------------------
(* The state of the parts a specification leaves alone *)

\* no Matrix operation is under study
MatrixIdle ==
    /\ mSelf = <<>>
    /\ mOther = <<>>
    /\ mN = 0
    /\ mOp = "idle"
    /\ mRes = NoCall

\* no turtle exists (the Matrix operations are under study)
TurtleIdle ==
    /\ turtle = NewTurtle
    /\ tOp = "none"
    /\ tErr = "none"
    /\ tCalls = MaxCalls
    /\ saved = <<>>
    /\ expect = <<>>

NoProjection == [ok |-> TRUE, value |-> 0, err |-> "none"]

\* no fractal exists (other operations are under study)
FractalIdle ==
    /\ fractal = Empty
    /\ built = "none"
    /\ symbols = <<>>
    /\ transition_matrix = <<>>
    /\ initial_vector = <<>>
    /\ symbol_steps = <<>>
    /\ ind_is_odd = <<>>
    /\ fOp = "idle"
    /\ fDepth = 0
    /\ projected = NoProjection
    /\ gen = NoGenerator
    /\ genOut = <<>>
    /\ drw = NoDraw
    /\ gen2 = NoGenerator
    /\ genOut2 = <<>>
    /\ drw2 = NoDraw
    /\ genl = NoGenL
    /\ genlOut = <<>>

----------------------------------------------------------------------------
(* The Matrix operations as actions *)

\* Matrix.__init__: a Matrix holds the list of rows it is given
MatrixInit ==
    /\ mSelf \in Matrices
    /\ mOther = <<>>
    /\ mN = 0
    /\ mOp = "none"
    /\ mRes = NoCall
    /\ TurtleIdle
    /\ FractalIdle

\* self * other
MatMul ==
    \E b \in Matrices :
        /\ mOp = "none"
        /\ mOther' = b
        /\ mOp' = "mul"
        /\ mRes' = Mul(mSelf, b)
        /\ UNCHANGED <<mSelf, mN>>
        /\ UNCHANGED turtleVars
        /\ UNCHANGED fractalVars

\* self ** n
MatPow ==
    \E n \in (0 - MaxNegExp)..MaxExp :
        /\ mOp = "none"
        /\ mN' = n
        /\ mOp' = "pow"
        /\ mRes' = Pow(mSelf, n)
        /\ UNCHANGED <<mSelf, mOther>>
        /\ UNCHANGED turtleVars
        /\ UNCHANGED fractalVars

\* Matrix.identity(n)
MatIdentity ==
    \E n \in Dims :
        /\ mOp = "none"
        /\ mN' = n
        /\ mOp' = "identity"
        /\ mRes' = Ok(identity(n))
        /\ UNCHANGED <<mSelf, mOther>>
        /\ UNCHANGED turtleVars
        /\ UNCHANGED fractalVars

MatrixNext == MatMul \/ MatPow \/ MatIdentity

SpecMatrix == MatrixInit /\ [][MatrixNext]_vars

----------------------------------------------------------------------------
(* C4 *)

\* C4: for a square integer matrix M and exponents a, b >= 0, M ** (a + b)
\* equals (M ** a) * (M ** b); M ** 0 is the identity of M's size and
\* M ** 1 is M.
PowAddsExponents ==
    (mOp = "pow" /\ mN >= 0 /\ IsSquare(mSelf)) =>
        /\ mRes.ok
        /\ \A a \in 0..mN :
              mRes = MulOutcome(Pow(mSelf, a), Pow(mSelf, mN - a))
        /\ (mN = 0 => mRes.array = identity(Len(mSelf)))
        /\ (mN = 1 => mRes.array = mSelf)

\* C4 witness: an odd power >= 3 of a 2 x 2 matrix that is neither the
\* identity nor its own square has been computed
PowAddsExponentsWitness ==
    /\ mOp = "pow" /\ mN >= 3 /\ mN % 2 = 1
    /\ Len(mSelf) = 2 /\ IsSquare(mSelf)
    /\ mRes.ok
    /\ mRes.array # mSelf
    /\ mRes.array # identity(2)
    /\ mRes.array # Mul(mSelf, mSelf).array

----------------------------------------------------------------------------
(* C5 *)

\* C5: a negative exponent is rejected: __pow__(n) with n < 0 ends in an
\* UnsupportedExponent error, neither recursing without end nor returning
\* a matrix.
NegativeExponentRejected ==
    (mOp = "pow" /\ mN < 0) =>
        (~mRes.ok /\ mRes.err = "UnsupportedExponent")

----------------------------------------------------------------------------
(* C6 *)

\* C6: self * other with the number of columns of self different from the
\* number of rows of other fails and never returns a product matrix.
DimensionMismatchFails ==
    (mOp = "mul" /\ mSelf # <<>> /\ Len(mSelf[1]) # Len(mOther)) => ~mRes.ok

----------------------------------------------------------------------------
(* The ProcessingTurtle methods as actions *)

\* the angles turned by and headed to, in degrees
Angles == {-90, 90, 180, 450}
\* the coordinates jumped to: 0 and 0.5
Coords == {Frac(0, 1), Frac(1, 2)}

TurtleInit ==
    /\ turtle = NewTurtle
    /\ tOp = "__init__"
    /\ tErr = "none"
    /\ tCalls = 0
    /\ saved = <<>>
    /\ expect = <<>>
    /\ MatrixIdle
    /\ FractalIdle

\* a method other than save_state and restore_state was called
Called(op, outcome) ==
    /\ tCalls < MaxCalls
    /\ turtle' = outcome.t
    /\ tOp' = op
    /\ tErr' = outcome.err
    /\ tCalls' = tCalls + 1
    /\ UNCHANGED <<saved, expect>>
    /\ UNCHANGED matVars
    /\ UNCHANGED fractalVars

TForward == Called("forward", forward(turtle, 1))

TTurn == \E a \in Angles : Called("turn_degrees", Returned(turn_degrees(turtle, a)))

TJump == \E nx \in Coords : \E ny \in Coords :
            Called("jump", Returned(jump(turtle, nx, ny)))

TSetHeading ==
    \E a \in Angles :
        Called("setheading_degrees", Returned(setheading_degrees(turtle, a)))

TPenUp == Called("penup", Returned(penup(turtle)))

TPenDown == Called("pendown", Returned(pendown(turtle)))

TSaveState ==
    /\ tCalls < MaxCalls
    /\ turtle' = save_state(turtle)
    /\ tOp' = "save_state"
    /\ tErr' = "none"
    /\ tCalls' = tCalls + 1
    /\ saved' = Append(saved, turtle)
    /\ UNCHANGED expect
    /\ UNCHANGED matVars
    /\ UNCHANGED fractalVars

TRestoreState ==
    /\ tCalls < MaxCalls
    /\ turtle' = restore_state(turtle).t
    /\ tOp' = "restore_state"
    /\ tErr' = restore_state(turtle).err
    /\ tCalls' = tCalls + 1
    /\ saved' = SubSeq(saved, 1, Len(saved) - 1)
    /\ expect' = IF saved = <<>> THEN <<>> ELSE <<saved[Len(saved)]>>
    /\ UNCHANGED matVars
    /\ UNCHANGED fractalVars

TurtleNext ==
    \/ TForward \/ TTurn \/ TJump \/ TSetHeading \/ TPenUp \/ TPenDown
    \/ TSaveState \/ TRestoreState

SpecTurtle == TurtleInit /\ [][TurtleNext]_vars

----------------------------------------------------------------------------
(* C8 *)

\* C8: save_state, then any forward / turn_degrees / jump /
\* setheading_degrees / penup / pendown calls and balanced save_state /
\* restore_state pairs, then restore_state: the turtle has exactly the
\* (x, y, heading, pen-down) values it had at the save_state, and the state
\* stack is as it was before the save_state.
RestoreReturnsToSave ==
    (tOp = "restore_state" /\ expect # <<>>) =>
        /\ tErr = "none"
        /\ Pose(turtle) = Pose(expect[1])
        /\ turtle.state_stack = expect[1].state_stack

\* C8 witness: a restore_state matched a save_state made inside another
\* save_state, and the turtle had moved forward between the two
RestoreReturnsToSaveWitness ==
    /\ tOp = "restore_state" /\ expect # <<>> /\ tErr = "none"
    /\ turtle.state_stack # <<>>
    /\ turtle.times_moved > expect[1].times_moved
    /\ Pose(turtle) # turtle.state_stack[1]

----------------------------------------------------------------------------
(* C9 *)

\* C9: restore_state on an empty state stack fails with the empty-stack
\* error (list.pop's IndexError) and leaves position, heading and pen state
\* unchanged.
RestoreOnEmptyStackFails ==
    [][(tOp' = "restore_state" /\ tCalls' # tCalls
            /\ turtle.state_stack = <<>>)
        => (tErr' = "IndexError" /\ turtle' = turtle)]_vars

\* C9 witness: restore_state was called on the empty stack of a turtle that
\* had left its initial position, heading and pen state, and raised
RestoreOnEmptyStackFailsWitness ==
    /\ tOp = "restore_state" /\ tErr = "IndexError"
    /\ turtle.state_stack = <<>>
    /\ turtle.x # Frac(0, 1) /\ turtle.heading # 0 /\ ~turtle.pendown

----------------------------------------------------------------------------
(* The LSystemFractal methods as actions *)

\* the widths of the square handed to draw
Widths == {100}

\* LSystemFractal.__init__: the namedtuple fields, then
\* generate_transition_matrix, which probes the drawing rules of a
\* draw_rules(t, 1) of its own on a DummyTurtle. An exception it raises
\* leaves LSystemFractal(...) without a value: no method of the fractal
\* can be called.
FractalInit ==
    /\ fractal \in Fractals
    /\ symbols \in Orders(SymbolSet(fractal))
    /\ transition_matrix = TransitionMatrix(fractal, symbols)
    /\ initial_vector = InitialVector(fractal, symbols)
    /\ built = SymbolStepsOutcome(fractal, symbols).err
    /\ symbol_steps = SymbolStepsOutcome(fractal, symbols).array
    /\ ind_is_odd = ProbeRules(fractal, symbols, 1, DrawRules(fractal, <<>>))
    /\ fOp = "none"
    /\ fDepth = 0
    /\ projected = NoProjection
    /\ gen = NoGenerator
    /\ genOut = <<>>
    /\ drw = NoDraw
    /\ gen2 = NoGenerator
    /\ genOut2 = <<>>
    /\ drw2 = NoDraw
    /\ genl = NoGenL
    /\ genlOut = <<>>
    /\ MatrixIdle
    /\ TurtleIdle

\* self.project_steps(iterations)
CallProjectSteps ==
    \E n \in 0..MaxIterations :
        /\ built = "none"
        /\ fOp = "none"
        /\ fOp' = "project_steps"
        /\ fDepth' = n
        /\ projected' = ProjectSteps(symbol_steps, transition_matrix,
                                     initial_vector, n)
        /\ UNCHANGED builtVars
        /\ UNCHANGED <<ind_is_odd, gen, genOut, drw, gen2, genOut2, drw2,
                       genl, genlOut>>
        /\ UNCHANGED matVars
        /\ UNCHANGED turtleVars

\* self.generate(depth)
CallGenerate ==
    \E depth \in 0..MaxDepth :
        /\ built = "none"
        /\ fOp = "none"
        /\ fOp' = "generate"
        /\ fDepth' = depth
        /\ gen' = generate(depth)
        /\ UNCHANGED builtVars
        /\ UNCHANGED <<ind_is_odd, projected, genOut, drw, gen2, genOut2,
                       drw2, genl, genlOut>>
        /\ UNCHANGED matVars
        /\ UNCHANGED turtleVars

\* next() of the generator of generate
GenNext ==
    /\ fOp = "generate"
    /\ gen.status \in {"created", "suspended"}
    /\ gen' = GeneratorNext(fractal, gen).gen
    /\ genOut' = IF GeneratorNext(fractal, gen).stop THEN genOut
                 ELSE Append(genOut, GeneratorNext(fractal, gen).sym)
    /\ UNCHANGED builtVars
    /\ UNCHANGED <<ind_is_odd, fOp, fDepth, projected, drw, gen2, genOut2,
                   drw2, genl, genlOut>>
    /\ UNCHANGED matVars
    /\ UNCHANGED turtleVars

\* self.draw(turtle, depth, w) on a new ProcessingTurtle
CallDraw ==
    \E depth \in 0..MaxDepth : \E w \in Widths :
        /\ built = "none"
        /\ fOp = "none"
        /\ fOp' = "draw"
        /\ fDepth' = depth
        /\ drw' = NewDraw(NewTurtle, depth, w)
        /\ UNCHANGED builtVars
        /\ UNCHANGED <<ind_is_odd, projected, gen, genOut, gen2, genOut2,
                       drw2, genl, genlOut>>
        /\ UNCHANGED matVars
        /\ UNCHANGED turtleVars

\* next() of the generator of draw
DrawNext ==
    /\ fOp = "draw"
    /\ drw.status \in {"created", "suspended"}
    /\ drw' = DrawNextOutcome(fractal, symbol_steps, transition_matrix,
                              initial_vector, drw, ind_is_odd).drw
    /\ ind_is_odd' = DrawNextOutcome(fractal, symbol_steps, transition_matrix,
                                     initial_vector, drw, ind_is_odd).cells
    /\ UNCHANGED builtVars
    /\ UNCHANGED <<fOp, fDepth, projected, gen, genOut, gen2, genOut2, drw2,
                   genl, genlOut>>
    /\ UNCHANGED matVars
    /\ UNCHANGED turtleVars

\* self.draw(turtle, depth, w) on another new ProcessingTurtle, after the
\* generator of the first draw has ended
CallDrawAgain ==
    \E w \in Widths :
        /\ fOp = "draw"
        /\ drw.status \in {"done", "raised"}
        /\ drw2.status = "none"
        /\ drw2' = NewDraw(NewTurtle, fDepth, w)
        /\ UNCHANGED builtVars
        /\ UNCHANGED <<ind_is_odd, fOp, fDepth, projected, gen, genOut, drw,
                       gen2, genOut2, genl, genlOut>>
        /\ UNCHANGED matVars
        /\ UNCHANGED turtleVars

\* next() of the generator of the second draw
Draw2Next ==
    /\ fOp = "draw"
    /\ drw2.status \in {"created", "suspended"}
    /\ drw2' = DrawNextOutcome(fractal, symbol_steps, transition_matrix,
                               initial_vector, drw2, ind_is_odd).drw
    /\ ind_is_odd' = DrawNextOutcome(fractal, symbol_steps, transition_matrix,
                                     initial_vector, drw2, ind_is_odd).cells
    /\ UNCHANGED builtVars
    /\ UNCHANGED <<fOp, fDepth, projected, gen, genOut, drw, gen2, genOut2,
                   genl, genlOut>>
    /\ UNCHANGED matVars
    /\ UNCHANGED turtleVars

FractalNext ==
    \/ CallProjectSteps \/ CallGenerate \/ GenNext
    \/ CallDraw \/ DrawNext \/ CallDrawAgain \/ Draw2Next

SpecFractal == FractalInit /\ [][FractalNext]_vars

----------------------------------------------------------------------------
(* Two generators of one fractal, consumed in turns *)

\* self.generate(depth), twice
CallGenerateTwice ==
    \E depth \in 0..MaxInterleaveDepth :
        /\ built = "none"
        /\ fOp = "none"
        /\ fOp' = "generate"
        /\ fDepth' = depth
        /\ gen' = generate(depth)
        /\ gen2' = generate(depth)
        /\ UNCHANGED builtVars
        /\ UNCHANGED <<ind_is_odd, projected, genOut, drw, genOut2, drw2,
                       genl, genlOut>>
        /\ UNCHANGED matVars
        /\ UNCHANGED turtleVars

\* next() of the second generator of generate
Gen2Next ==
    /\ fOp = "generate"
    /\ gen2.status \in {"created", "suspended"}
    /\ gen2' = GeneratorNext(fractal, gen2).gen
    /\ genOut2' = IF GeneratorNext(fractal, gen2).stop THEN genOut2
                  ELSE Append(genOut2, GeneratorNext(fractal, gen2).sym)
    /\ UNCHANGED builtVars
    /\ UNCHANGED <<ind_is_odd, fOp, fDepth, projected, gen, genOut, drw,
                   drw2, genl, genlOut>>
    /\ UNCHANGED matVars
    /\ UNCHANGED turtleVars

\* self.draw(turtle, depth, w), twice, each on a new ProcessingTurtle
CallDrawTwice ==
    \E depth \in 0..MaxInterleaveDepth : \E w \in Widths :
        /\ built = "none"
        /\ fOp = "none"
        /\ fOp' = "draw"
        /\ fDepth' = depth
        /\ drw' = NewDraw(NewTurtle, depth, w)
        /\ drw2' = NewDraw(NewTurtle, depth, w)
        /\ UNCHANGED builtVars
        /\ UNCHANGED <<ind_is_odd, projected, gen, genOut, gen2, genOut2,
                       genl, genlOut>>
        /\ UNCHANGED matVars
        /\ UNCHANGED turtleVars

InterleaveNext ==
    \/ CallGenerateTwice \/ GenNext \/ Gen2Next
    \/ CallDrawTwice \/ DrawNext \/ Draw2Next

SpecInterleave == FractalInit /\ [][InterleaveNext]_vars

----------------------------------------------------------------------------
(* gen_l as actions *)

\* the patterns and rules handed to gen_l: hilbert.py's own, and the axiom
\* and rules of each grammar above
GenLInputs ==
    {[pattern |-> RULES["A"], rules |-> RULES]}
        \cup {[pattern |-> fr.axiom, rules |-> fr.rules] : fr \in Fractals}

\* no generator of gen_l has been made
HilbertInit ==
    /\ fractal = Empty
    /\ built = "none"
    /\ symbols = <<>>
    /\ transition_matrix = <<>>
    /\ initial_vector = <<>>
    /\ symbol_steps = <<>>
    /\ ind_is_odd = <<>>
    /\ fOp = "none"
    /\ fDepth = 0
    /\ projected = NoProjection
    /\ gen = NoGenerator
    /\ genOut = <<>>
    /\ drw = NoDraw
    /\ gen2 = NoGenerator
    /\ genOut2 = <<>>
    /\ drw2 = NoDraw
    /\ genl = NoGenL
    /\ genlOut = <<>>
    /\ MatrixIdle
    /\ TurtleIdle

\* gen_l(depth, pattern, rules)
CallGenL ==
    \E depth \in (0 - 1)..MaxDepth : \E input \in GenLInputs :
        /\ fOp = "none"
        /\ fOp' = "gen_l"
        /\ fDepth' = depth
        /\ genl' = gen_l(depth, input.pattern, input.rules)
        /\ UNCHANGED builtVars
        /\ UNCHANGED <<ind_is_odd, projected, gen, genOut, drw, gen2, genOut2,
                       drw2, genlOut>>
        /\ UNCHANGED matVars
        /\ UNCHANGED turtleVars

\* next() of the generator of gen_l
GenLNext ==
    /\ fOp = "gen_l"
    /\ genl.status \in {"created", "suspended"}
    /\ genl' = GenLNextOutcome(genl).gen
    /\ genlOut' = IF GenLNextOutcome(genl).stop THEN genlOut
                  ELSE Append(genlOut, GenLNextOutcome(genl).sym)
    /\ UNCHANGED builtVars
    /\ UNCHANGED <<ind_is_odd, fOp, fDepth, projected, gen, genOut, drw, gen2,
                   genOut2, drw2>>
    /\ UNCHANGED matVars
    /\ UNCHANGED turtleVars

HilbertNext == CallGenL \/ GenLNext

SpecHilbert == HilbertInit /\ [][HilbertNext]_vars

----------------------------------------------------------------------------
(* The fully materialized expansion the claims compare with *)

\* the replacement of one symbol: its rule's right-hand side, or the symbol
\* itself when it has no rule
Replacement(fr, sym) ==
    IF sym \in DOMAIN fr.rules THEN fr.rules[sym] ELSE <<sym>>

RECURSIVE RewriteRange(_, _, _, _)
\* the concatenation of the replacements of seq[lo], ..., seq[hi]
RewriteRange(fr, seq, lo, hi) ==
    IF lo > hi THEN <<>>
    ELSE IF lo = hi THEN Replacement(fr, seq[lo])
    ELSE RewriteRange(fr, seq, lo, (lo + hi) \div 2)
            \o RewriteRange(fr, seq, (lo + hi) \div 2 + 1, hi)

RECURSIVE Expansion(_, _)
\* the d-fold rewrite of the axiom
Expansion(fr, d) ==
    IF d = 0 THEN fr.axiom
    ELSE LET inner == Expansion(fr, d - 1) IN
         RewriteRange(fr, inner, 1, Len(inner))

IsPrefix(p, q) == Len(p) <= Len(q) /\ SubSeq(q, 1, Len(p)) = p

\* the alphabet of a grammar: the symbols of its axiom, the keys of its
\* rules and the symbols of their right-hand sides
Alphabet(fr) ==
    {fr.axiom[i] : i \in 1..Len(fr.axiom)} \cup DOMAIN fr.rules
        \cup UNION {{fr.rules[k][i] : i \in 1..Len(fr.rules[k])} :
                        k \in DOMAIN fr.rules}

----------------------------------------------------------------------------
(* C1 *)

\* C1: generate(d) yields, symbol for symbol and in order, the d-fold
\* rewrite of the axiom: every symbol it has yielded continues that
\* rewrite, and it stops exactly at its end; generate(0) is the axiom, and
\* F with F -> F+F-F at depth 2 gives F+F-F+F+F-F-F+F-F.
GenerateYieldsRewrite ==
    (fOp = "generate") =>
        /\ IsPrefix(genOut, Expansion(fractal, fDepth))
        /\ (gen.status = "done" => genOut = Expansion(fractal, fDepth))
        /\ (gen.status = "done" /\ fDepth = 0 => genOut = fractal.axiom)
        /\ (gen.status = "done" /\ fDepth = 2 /\ fractal = SpecExample =>
                genOut = <<"F", "+", "F", "-", "F", "+", "F", "+", "F",
                           "-", "F", "-", "F", "+", "F", "-", "F">>)

\* C1 witness: generate(2) of F -> F+F-F has been consumed to its end and
\* has yielded the 17 symbols of the example
GenerateYieldsRewriteWitness ==
    /\ fOp = "generate" /\ gen.status = "done"
    /\ fractal = SpecExample /\ fDepth = 2
    /\ Len(genOut) = 17

----------------------------------------------------------------------------
(* C2 *)

\* the number of times sym occurs in seq
Occurrences(seq, sym) == Cardinality({i \in 1..Len(seq) : seq[i] = sym})

\* C2: transition_matrix ** d * initial_vector has, for each symbol of
\* self.symbols, the number of occurrences of that symbol in the fully
\* materialized depth-d expansion (0 <= d <= 6); entry [i][j] of the matrix
\* is the count of symbol i in the replacement of symbol j.
PowerProjectsSymbolCounts ==
    (fOp = "project_steps") =>
        LET v == MulOutcome(Pow(transition_matrix, fDepth),
                            Ok(initial_vector))
        IN  /\ v.ok
            /\ Len(v.array) = Len(symbols)
            /\ \A i \in 1..Len(symbols) :
                  v.array[i] =
                      <<Occurrences(Expansion(fractal, fDepth), symbols[i])>>
            /\ \A i, j \in 1..Len(symbols) :
                  transition_matrix[i][j] =
                      Occurrences(Replacement(fractal, symbols[j]), symbols[i])

\* C2 witness: the counts of the depth-6 expansion of the Fibonacci word
\* (21 symbols, 13 of them F) have been projected
PowerProjectsSymbolCountsWitness ==
    /\ fOp = "project_steps" /\ fDepth = 6
    /\ fractal = fibonacci_word
    /\ symbols = <<"0", "F", "G">>
    /\ MulOutcome(Pow(transition_matrix, fDepth), Ok(initial_vector)).array
            = <<<<1>>, <<13>>, <<8>>>>

----------------------------------------------------------------------------
(* C3 *)

RECURSIVE TotalSteps(_, _, _)
\* the steps the drawing rules report over all occurrences in seq of the
\* symbols of S
TotalSteps(fr, seq, S) ==
    IF S = {} THEN 0
    ELSE LET sym == CHOOSE x \in S : TRUE IN
         Occurrences(seq, sym) * RuleBody(fr, sym, FALSE).steps
            + TotalSteps(fr, seq, S \ {sym})

\* C3: for every grammar and depth d >= 0, project_steps(d) is the total
\* number of steps the drawing rules report over the symbol occurrences of
\* the fully materialized depth-d expansion.
ProjectStepsCountsSteps ==
    (fOp = "project_steps") =>
        /\ projected.ok
        /\ projected.value =
              TotalSteps(fractal, Expansion(fractal, fDepth),
                         SymbolSet(fractal))

----------------------------------------------------------------------------
(* C7 *)

\* C7 as stated: for axiom F, F -> F+F-F and the symbols ordered F, +, -
\* the transition matrix is [[3,0,0],[2,1,0],[1,0,1]].
ExampleMatrixAsStated ==
    (fractal = SpecExample /\ symbols = <<"F", "+", "-">>) =>
        transition_matrix = <<<<3, 0, 0>>, <<2, 1, 0>>, <<1, 0, 1>>>>

\* C7 as amended: for axiom F, F -> F+F-F and the symbols ordered F, +, -
\* the transition matrix is [[3,0,0],[1,1,0],[1,0,1]] (F+F-F holds one +),
\* and its square applied to [1,0,0] is the symbol-count vector [9,4,4] of
\* the depth-2 expansion F+F-F+F+F-F-F+F-F.
ExampleMatrix ==
    (fractal = SpecExample /\ symbols = <<"F", "+", "-">>) =>
        /\ transition_matrix = <<<<3, 0, 0>>, <<1, 1, 0>>, <<1, 0, 1>>>>
        /\ initial_vector = <<<<1>>, <<0>>, <<0>>>>
        /\ MulOutcome(Pow(transition_matrix, 2), Ok(initial_vector))
                = Ok(<<<<9>>, <<4>>, <<4>>>>)
        /\ \A i \in 1..3 :
              MulOutcome(Pow(transition_matrix, 2), Ok(initial_vector)).array[i]
                = <<Occurrences(<<"F", "+", "F", "-", "F", "+", "F", "+", "F",
                                  "-", "F", "-", "F", "+", "F", "-", "F">>,
                                symbols[i])>>

\* C7 witness: the fractal of the example has been built with its symbols
\* ordered F, +, - and its steps projected for two iterations
ExampleMatrixWitness ==
    /\ fractal = SpecExample /\ symbols = <<"F", "+", "-">>
    /\ fOp = "project_steps" /\ fDepth = 2
    /\ projected.ok /\ projected.value = 9

----------------------------------------------------------------------------
(* C10 *)

\* C10: when project_steps(depth) is 0, draw guards the normalisation of
\* the progress against a division by zero: it walks the expansion without
\* a division-by-zero failure.
DrawGuardsZeroProjection ==
    (fOp = "draw" /\ drw.status # "created" /\ drw.expected_steps = 0) =>
        ~(drw.status = "raised" /\ drw.err = "ZeroDivisionError"
            /\ drw.where = "sethue")

----------------------------------------------------------------------------
(* C11 *)

\* C11: a symbol of the grammar's alphabet (axiom, rule keys, rule
\* right-hand sides) without a drawing rule makes the construction of the
\* LSystemFractal raise (KeyError): no generator, no draw and no turtle of a
\* draw exists for such a fractal, and no draw ever raises KeyError at
\* draw_rules[symbol] in the middle of a drawing.
MissingRuleRaisesAtConstruction ==
    /\ (\E sym \in Alphabet(fractal) : sym \notin RuleKeys)
        => /\ built = "KeyError"
           /\ fOp = "none"
           /\ gen = NoGenerator /\ drw = NoDraw
    /\ ~(drw.status = "raised" /\ drw.err = "KeyError"
            /\ drw.where = "draw_rules")

\* C11 witness: the construction of the fractal whose rules lead to Q, a
\* symbol without a drawing rule that no expansion of depth < 2 holds, has
\* raised KeyError
MissingRuleRaisesAtConstructionWitness ==
    /\ fractal = MissingRule
    /\ "Q" \notin Range(Expansion(fractal, 1))
    /\ "Q" \in Range(Expansion(fractal, 2))
    /\ built = "KeyError"
    /\ fOp = "none" /\ drw = NoDraw

----------------------------------------------------------------------------
(* C12 *)

\* the entries of a trace of draw that tell of the generator and the rules
IsOrderEntry(e) == e[1] \in {"next", "rule", "yield"}

RECURSIVE ExpectedOrder(_, _, _, _)
\* for seq[lo], ..., seq[hi] in turn: the symbol is taken from the
\* generator, then its drawing rule is called, then draw yields once for
\* each step the rule reports
ExpectedOrder(fr, seq, lo, hi) ==
    IF lo > hi THEN <<>>
    ELSE IF lo = hi
    THEN <<<<"next", seq[lo], 0>>, <<"rule", seq[lo], 0>>>>
            \o [i \in 1..RuleBody(fr, seq[lo], FALSE).steps |->
                    <<"yield", "", 0>>]
    ELSE ExpectedOrder(fr, seq, lo, (lo + hi) \div 2)
            \o ExpectedOrder(fr, seq, (lo + hi) \div 2 + 1, hi)

\* C12: in draw the drawing rule of the k-th symbol of generate(depth) is
\* called before the (k+1)-th symbol is taken from the generator, the rules
\* are called in the left-to-right order of the expansion, and draw yields
\* once per step a rule reports (and is suspended only at a yield).
DrawAlternatesWithGenerate ==
    (fOp = "draw" /\ drw.status # "created") =>
        LET order == SelectSeq(drw.trace, IsOrderEntry)
            expected == ExpectedOrder(fractal, Expansion(fractal, fDepth), 1,
                                      Len(Expansion(fractal, fDepth)))
        IN  /\ IsPrefix(order, expected)
            /\ (drw.status = "done" => order = expected)
            /\ (drw.status = "suspended" =>
                    order[Len(order)] = <<"yield", "", 0>>)
            /\ drw.yields =
                  Len(SelectSeq(drw.trace, LAMBDA e : e[1] = "yield"))

\* C12 witness: a draw of depth 2 of F -> F+F-F has run to its end: 17
\* symbols taken, 17 rules called, 9 yields, the rules of + and - between
\* two yields
DrawAlternatesWithGenerateWitness ==
    /\ fOp = "draw" /\ drw.status = "done"
    /\ fractal = SpecExample /\ fDepth = 2
    /\ drw.drawn = 17 /\ drw.yields = 9
    /\ Len(SelectSeq(drw.trace, IsOrderEntry)) = 17 + 17 + 9

----------------------------------------------------------------------------
(* C13 *)

RECURSIVE RunNexts(_, _, _)
\* n times next() of a generator of generate, or fewer when it ends: the
\* generator it leaves and the symbols yielded
RunNexts(fr, g, n) ==
    IF n = 0 THEN [gen |-> g, out |-> <<>>]
    ELSE LET pulled == GeneratorNext(fr, g) IN
         IF pulled.stop THEN [gen |-> pulled.gen, out |-> <<>>]
         ELSE LET rest == RunNexts(fr, pulled.gen, n - 1) IN
              [gen |-> rest.gen, out |-> <<pulled.sym>> \o rest.out]

RECURSIVE RunGenerate(_, _)
\* the symbols a generator of generate yields when it alone is consumed to
\* its end (taken 32 at a time)
RunGenerate(fr, g) ==
    LET some == RunNexts(fr, g, 32) IN
    IF some.gen.status = "done" THEN some.out
    ELSE some.out \o RunGenerate(fr, some.gen)

RECURSIVE RunDraw(_, _, _, _, _, _)
\* the generator of draw after it alone was consumed to its end
RunDraw(fr, steps, T, v0, d, cells) ==
    IF d.status \notin {"created", "suspended"} THEN d
    ELSE LET out == DrawNextOutcome(fr, steps, T, v0, d, cells) IN
         RunDraw(fr, steps, T, v0, out.drw, out.cells)

\* the draw of the fractal of the state, on a new turtle, run alone right
\* after the construction of the fractal
SoloDraw ==
    RunDraw(fractal, symbol_steps, transition_matrix, initial_vector,
            NewDraw(NewTurtle, fDepth, 100),
            ProbeRules(fractal, symbols, 1, DrawRules(fractal, <<>>)))

\* what is the same in two draws that did the same: all but the place of
\* the flag of their drawing rules
Observed(d) == [d EXCEPT !.cell = 0]

\* C13: two generators of generate(d), and two generators of draw on new
\* turtles, of one fractal and depth, consumed in turns in any order: what
\* one has yielded or done so far is the beginning of what the other has,
\* or the other way round; one that has ended has yielded what one consumed
\* alone yields, and has made the calls on its turtle that a draw run alone
\* makes, whatever the progress of the other, also for the Fibonacci word,
\* whose rules hold a flag.
InterleavedRunsAreIndependent ==
    /\ (fOp = "generate") =>
          LET solo == RunGenerate(fractal, generate(fDepth)) IN
          /\ (IsPrefix(genOut, genOut2) \/ IsPrefix(genOut2, genOut))
          /\ (gen.status = "done" => genOut = solo)
          /\ (gen2.status = "done" => genOut2 = solo)
          /\ (Len(genOut) = Len(genOut2) /\ gen.status = gen2.status
                => gen = gen2)
    /\ (fOp = "draw") =>
          LET solo == SoloDraw IN
          /\ (IsPrefix(drw.trace, drw2.trace) \/ IsPrefix(drw2.trace, drw.trace))
          /\ (drw.status \in {"done", "raised"}
                => Observed(drw) = Observed(solo))
          /\ (drw2.status \in {"done", "raised"}
                => Observed(drw2) = Observed(solo))
          /\ (drw.trace = drw2.trace /\ drw.status = drw2.status
                => Observed(drw) = Observed(drw2))

\* C13 witness: of two draws of depth 2 of the Fibonacci word, the one
\* started first has yielded twice and is suspended, and the other, started
\* after it, has run to its end (three F-or-G rules called): their flags
\* differ
InterleavedRunsAreIndependentWitness ==
    /\ fOp = "draw" /\ fractal = fibonacci_word /\ fDepth = 2
    /\ drw.status = "suspended" /\ drw.yields = 2 /\ drw.cell = 2
    /\ drw2.status = "done" /\ drw2.yields = 3 /\ drw2.cell = 3
    /\ ind_is_odd[2] # ind_is_odd[3]

----------------------------------------------------------------------------
(* C14 *)

\* the strings a frame of generate can be iterating: the axiom, or the
\* replacement of one symbol (nothing before its first symbol is pulled)
FrameStrings(fr) ==
    {fr.axiom, <<>>} \cup {Replacement(fr, sym) : sym \in Alphabet(fr)}

\* C14: while generate(depth) is consumed, at most depth + 1 generator
\* frames are live, one per rewrite level, and each holds a position in the
\* axiom or in the replacement of one symbol: the live state does not grow
\* with the number of symbols produced.
LiveFramesBoundedByDepth ==
    (fOp = "generate") =>
        /\ Len(gen.frames) <= fDepth + 1
        /\ \A k \in 1..Len(gen.frames) :
              /\ gen.frames[k].str \in FrameStrings(fractal)
              /\ gen.frames[k].idx \in 0..Len(gen.frames[k].str)
              /\ (k = 1 => gen.frames[k].str = fractal.axiom)

\* C14 witness: generate(3) is suspended with its 4 frames live after it
\* has yielded more symbols than all its frames hold together
LiveFramesBoundedByDepthWitness ==
    /\ fOp = "generate" /\ fDepth = 3 /\ gen.status = "suspended"
    /\ Len(gen.frames) = 4
    /\ Len(genOut) >
          SumSeq([k \in 1..Len(gen.frames) |-> Len(gen.frames[k].str)])

----------------------------------------------------------------------------
(* C15 *)

\* C15: in a draw with project_steps(depth) > 0, times_moved never exceeds
\* expected_steps = project_steps(depth), every value handed to
\* turtle.sethue lies in [0, 255], and a draw that has run to its end has
\* yielded project_steps(depth) times.
TimesMovedWithinProjection ==
    (fOp = "draw" /\ drw.status # "created" /\ drw.expected_steps > 0) =>
        /\ drw.expected_steps =
              ProjectSteps(symbol_steps, transition_matrix, initial_vector,
                           fDepth).value
        /\ drw.times_moved <= drw.expected_steps
        /\ drw.times_moved = drw.yields
        /\ \A i \in 1..Len(drw.trace) :
              drw.trace[i][1] = "sethue" =>
                  /\ 0 <= 255 * drw.trace[i][3]
                  /\ 255 * drw.trace[i][3] <= 255 * drw.expected_steps
        /\ (drw.hue # <<>> =>
              (0 <= drw.hue[1] /\ drw.hue[1] <= 255 * drw.hue[2]))
        /\ (drw.status = "done" => drw.yields = drw.expected_steps)

\* C15 witness: a draw of depth 3 of F -> F+F-F has run to its end and has
\* yielded the 27 times projected, with sethue last called for a hue > 0
TimesMovedWithinProjectionWitness ==
    /\ fOp = "draw" /\ drw.status = "done"
    /\ fractal = SpecExample /\ fDepth = 3
    /\ drw.expected_steps = 27 /\ drw.yields = 27
    /\ drw.hue[1] > 0

----------------------------------------------------------------------------
(* C16 *)

\* the pattern and rules handed to gen_l, as the data of a layered generator
GenLData == [axiom |-> genl.pattern, rules |-> genl.rules]

----------------------------------------------------------------------------
(* C17 *)

\* the entries of a trace of draw that tell of the rules F and G and of the
\* turtle methods they call
IsFiboEntry(e) ==
    /\ e[1] \in {"rule", "turtle"}
    /\ e[2] \in {"F", "G", "forward", "turn_degrees"}

RECURSIVE ExpectedFibo(_, _, _)
\* for the lo-th to the hi-th F-or-G occurrence fg[lo], ..., fg[hi]: an F
\* moves forward and turns +90 degrees when its place is odd and -90
\* degrees when it is even, a G moves forward
ExpectedFibo(fg, lo, hi) ==
    IF lo > hi THEN <<>>
    ELSE IF lo = hi
    THEN IF fg[lo] = "F"
         THEN <<<<"rule", "F", 0>>, <<"turtle", "forward", 1>>,
                <<"turtle", "turn_degrees", IF lo % 2 = 1 THEN 90 ELSE -90>>>>
         ELSE <<<<"rule", "G", 0>>, <<"turtle", "forward", 1>>>>
    ELSE ExpectedFibo(fg, lo, (lo + hi) \div 2)
            \o ExpectedFibo(fg, (lo + hi) \div 2 + 1, hi)

\* the rules F and G called by the generator d of a draw of the Fibonacci
\* word follow the parity of their place among the F-or-G occurrences of
\* the expansion, counted from 1 in this draw, and report one step each
FollowsParity(d) ==
    (d.status \notin {"none", "created"}) =>
        LET fg == SelectSeq(Expansion(fractal, fDepth),
                            LAMBDA sym : sym \in {"F", "G"})
            calls == SelectSeq(d.trace, IsFiboEntry)
            called == Len(SelectSeq(d.trace,
                        LAMBDA e : e[1] = "rule" /\ e[2] \in {"F", "G"}))
        IN  /\ d.status # "raised"
            /\ IsPrefix(calls, ExpectedFibo(fg, 1, Len(fg)))
            /\ (d.status = "done" => calls = ExpectedFibo(fg, 1, Len(fg)))
            /\ d.yields = called
            /\ d.cell > 0
            /\ ind_is_odd[d.cell] = (called % 2 = 1)

\* C17: in every draw of the Fibonacci word, the first after the
\* construction probe or a later one, the flag of fibo_rules starts cleared
\* and is negated by every F and every G: the k-th F-or-G occurrence of the
\* expansion, when an F, moves forward and turns +90 degrees for an odd k
\* and -90 degrees for an even k, a G only moves forward, and each F and G
\* reports one step.
FiboRulesFollowParity ==
    (fOp = "draw" /\ fractal = fibonacci_word) =>
        (FollowsParity(drw) /\ FollowsParity(drw2))

\* C17 witness: a second draw of depth 3 of the Fibonacci word (0FGFFG),
\* made after a first one had ended with its flag set, has ended: its F
\* rules have turned by +90, +90 and -90 degrees
FiboRulesFollowParityWitness ==
    /\ fOp = "draw" /\ fractal = fibonacci_word /\ fDepth = 3
    /\ drw.status = "done" /\ drw2.status = "done"
    /\ ind_is_odd[drw.cell] /\ drw2.cell > drw.cell
    /\ SelectSeq(drw2.trace, LAMBDA e : e[2] = "turn_degrees")
          = <<<<"turtle", "turn_degrees", 90>>,
              <<"turtle", "turn_degrees", 90>>,
              <<"turtle", "turn_degrees", -90>>>>

----------------------------------------------------------------------------
(* C18 *)

\* C18: self.symbols holds, once each, exactly the symbols of the axiom,
\* the rule keys and the rule right-hand sides; the replacement of each of
\* them holds only symbols of self.symbols, every symbol generate(d) yields
\* is one of them, and, the construction having succeeded, no
\* draw_rules[symbol] of a draw fails.
SymbolsClosedUnderRewriting ==
    /\ {symbols[i] : i \in 1..Len(symbols)} = Alphabet(fractal)
    /\ \A i, j \in 1..Len(symbols) : symbols[i] = symbols[j] => i = j
    /\ \A i \in 1..Len(symbols) :
          \A sym \in {Replacement(fractal, symbols[i])[n] :
                        n \in 1..Len(Replacement(fractal, symbols[i]))} :
              \E j \in 1..Len(symbols) : symbols[j] = sym
    /\ \A n \in 1..Len(genOut) :
          \E j \in 1..Len(symbols) : symbols[j] = genOut[n]
    /\ (built = "none") =>
          /\ \A n \in 1..Len(drw.trace) :
                drw.trace[n][1] = "next" =>
                    \E j \in 1..Len(symbols) : symbols[j] = drw.trace[n][2]
          /\ ~(drw.err = "KeyError" \/ drw2.err = "KeyError")

\* C18 witness: generate(2) of the grammar with axiom X has ended and has
\* yielded F and +, which are neither in the axiom nor a rule key, and a
\* symbol of the axiom as well
SymbolsClosedUnderRewritingWitness ==
    /\ fOp = "generate" /\ gen.status = "done"
    /\ fractal = MiniHilbert /\ fDepth = 2
    /\ \E n \in 1..Len(genOut) : genOut[n] = "F"
    /\ \E n \in 1..Len(genOut) : genOut[n] = "+"
    /\ \E n \in 1..Len(genOut) : genOut[n] = "X"
    /\ Len(symbols) = 4

====
